---- MODULE Spec2Model ----
(***************************************************************************)
(* A model of splat's Animation (lib/animation.js): an ordered list of     *)
(* (img, time) frames with a playback cursor, stepped one frame at a time  *)
(* or moved by elapsed milliseconds, copied (the copy shares the frames    *)
(* array), flipped and rotated.                                            *)
(*                                                                         *)
(* The JavaScript heap is modelled explicitly: `lists` holds the frames    *)
(* arrays, `anims` the Animation objects, and an Animation's `frames`      *)
(* field is a reference (an index into `lists`).  Indices of the code are  *)
(* 0-based; a TLA+ sequence is 1-based, so frames[i] is fl[i + 1].         *)
(*                                                                         *)
(* The Camera (lib/camera.js) is modelled with the 2D context it offsets:  *)
(* `camera` is the Camera object, `context` the translation of the context *)
(* and its stack of saved states.                                          *)
(***************************************************************************)
EXTENDS Integers, Sequences, FiniteSets

VARIABLES
    lists,    \* heap of frames arrays: lists[l] is a sequence of [img, time]
    anims,    \* heap of Animation objects, in order of creation
    result,   \* what the latest call did: threw or not, its drawImage call
    history,  \* per Animation, the rotate calls made on it (not program state)
    probe,    \* bookkeeping of the scenario specifications (not program state)
    camera,   \* the Camera object: its x and y, in halves of a pixel
    context   \* the 2D context: its translation and its stack of saved states

vars == <<lists, anims, result, history, probe, camera, context>>

----------------------------------------------------------------------------
(* Bounds of the model.                                                    *)

MaxAnims == 2      \* Animation objects alive at once
MaxFrames == 2     \* frames in one frames array
MaxTime == 2       \* longest display time of a frame, in milliseconds
MaxDelta == 3      \* largest argument of move()
MaxElapsed == 2    \* cap of the elapsedMillis a move() may leave behind
ProbeFrames == 3   \* frames of the Animation a scenario starts from
MaxCalls == 4      \* calls made in a playback scenario

----------------------------------------------------------------------------
(* Images and the buffer module.  An image is known by its dimensions and  *)
(* by how it is oriented with respect to the picture it was loaded as:     *)
(* `rot` quarter turns clockwise applied after an optional horizontal      *)
(* mirroring (the eight symmetries of a rectangle).                        *)

Image(w, h) == [w |-> w, h |-> h, rot |-> 0, mirrored |-> FALSE]

\* The pictures a loader hands to add(): two sizes, neither square.
Images == {Image(1, 2), Image(3, 1)}

\* The display time the loader gives each picture: the taller one is shown
\* for 1 ms, the wider one for MaxTime ms.
TimeOf(img) == IF img.h > img.w THEN 1 ELSE MaxTime

flipBufferHorizontally(img) ==
    [img EXCEPT !.rot = (4 - @) % 4, !.mirrored = ~@]

flipBufferVertically(img) ==
    [img EXCEPT !.rot = (6 - @) % 4, !.mirrored = ~@]

bufferRotateClockwise(img) ==
    [w |-> img.h, h |-> img.w, rot |-> (img.rot + 1) % 4, mirrored |-> img.mirrored]

bufferRotateCounterclockwise(img) ==
    [w |-> img.h, h |-> img.w, rot |-> (img.rot + 3) % 4, mirrored |-> img.mirrored]

----------------------------------------------------------------------------
(* The Animation object and its methods, as functions of the object `an`   *)
(* and of the frames array `fl` its `frames` field refers to.              *)

\* function Animation(): the fields of a new object, given its frames array.
Animation(l) ==
    [frames |-> l, frame |-> 0, elapsedMillis |-> 0, repeatAt |-> 0,
     width |-> 0, height |-> 0]

\* this.frames[this.frame] is an element of the array (not undefined).
HasFrame(an, fl) == an.frame >= 0 /\ an.frame < Len(fl)

\* this.frames[this.frame]
CurrentFrame(an, fl) == fl[an.frame + 1]

\* A slip in step(): > for >=, so that the cursor leaves the array once.
stepPastEnd(an, fl) ==
    IF an.frame + 1 > Len(fl)
    THEN [an EXCEPT !.frame = an.repeatAt]
    ELSE [an EXCEPT !.frame = an.frame + 1]

\* A slip in step(): the cursor restarts at frame 0, whatever repeatAt is.
stepToZero(an, fl) ==
    IF an.frame + 1 >= Len(fl)
    THEN [an EXCEPT !.frame = 0]
    ELSE [an EXCEPT !.frame = an.frame + 1]

\* A slip in step(): the time spent on the frame that is left is dropped.
stepClearsElapsed(an, fl) ==
    IF an.frame + 1 >= Len(fl)
    THEN [an EXCEPT !.frame = an.repeatAt, !.elapsedMillis = 0]
    ELSE [an EXCEPT !.frame = an.frame + 1, !.elapsedMillis = 0]

\* Animation.prototype.step
step(an, fl) ==
    IF an.frame + 1 >= Len(fl)
    THEN [an EXCEPT !.frame = an.repeatAt]
    ELSE [an EXCEPT !.frame = an.frame + 1]

\* A slip in move(): the loop compares with the time of frame 0.
moveConditionFirstFrame(an, fl) == an.elapsedMillis > fl[1].time

\* A slip in move(): >= for >.
moveConditionOrEqual(an, fl) == an.elapsedMillis >= CurrentFrame(an, fl).time

\* The condition of move()'s while loop.
moveCondition(an, fl) == an.elapsedMillis > CurrentFrame(an, fl).time

\* A slip in move(): the time of the frame that is left is not taken off.
moveBodyWithoutSubtraction(an, fl) == step(an, fl)

\* The body of move()'s while loop: one frame is crossed.
moveBody(an, fl) ==
    step([an EXCEPT !.elapsedMillis = @ - CurrentFrame(an, fl).time], fl)

\* The while loop of move().  Reading .time of an undefined frame throws a
\* TypeError, which leaves the object as it is at that point.
RECURSIVE moveLoop(_, _)
moveLoop(an, fl) ==
    IF ~HasFrame(an, fl) THEN an
    ELSE IF moveCondition(an, fl)
    THEN moveLoop(moveBody(an, fl), fl)
    ELSE an

\* A slip in move(): `if` for `while`, so that one call crosses one frame
\* at most.
moveOnce(an, fl, elapsedMillis) ==
    LET added == [an EXCEPT !.elapsedMillis = @ + elapsedMillis]
    IN  IF HasFrame(added, fl) /\ moveCondition(added, fl)
        THEN step([added EXCEPT !.elapsedMillis = @ - CurrentFrame(added, fl).time], fl)
        ELSE added

\* Animation.prototype.move
move(an, fl, elapsedMillis) ==
    moveLoop([an EXCEPT !.elapsedMillis = @ + elapsedMillis], fl)

\* move() throws: its loop ends on a frame index that is not in the array.
moveThrows(an, fl, elapsedMillis) == ~HasFrame(move(an, fl, elapsedMillis), fl)

\* A slip in draw(): the image of frame 0, wherever the cursor is.
drawnFirst(an, fl) == fl[1].img

\* Animation.prototype.draw: the image handed to context.drawImage.
drawnImage(an, fl) == CurrentFrame(an, fl).img

\* A slip in reset(): the cursor restarts where a finished run restarts.
resetToRepeatAt(an) == [an EXCEPT !.frame = an.repeatAt, !.elapsedMillis = 0]

\* Animation.prototype.reset
reset(an) == [an EXCEPT !.frame = 0, !.elapsedMillis = 0]

\* A slip in add(): the test of frames.length is missing, so that every
\* frame added gives the Animation its dimensions.
addEvery(an, fl, img) == [an EXCEPT !.width = img.w, !.height = img.h]

\* Animation.prototype.add: the object after the push.
add(an, fl, img) ==
    IF Len(fl) + 1 = 1
    THEN [an EXCEPT !.width = img.w, !.height = img.h]
    ELSE an

\* Animation.prototype.add: the frames array after the push.
addFrames(fl, img, time) == Append(fl, [img |-> img, time |-> time])

\* The loops of the flip and rotate methods: every frame's img is replaced.
flippedHorizontally(fl) ==
    [i \in 1..Len(fl) |-> [fl[i] EXCEPT !.img = flipBufferHorizontally(@)]]

flippedVertically(fl) ==
    [i \in 1..Len(fl) |-> [fl[i] EXCEPT !.img = flipBufferVertically(@)]]

rotatedClockwise(fl) ==
    [i \in 1..Len(fl) |-> [fl[i] EXCEPT !.img = bufferRotateClockwise(@)]]

rotatedCounterclockwise(fl) ==
    [i \in 1..Len(fl) |-> [fl[i] EXCEPT !.img = bufferRotateCounterclockwise(@)]]

\* A slip in the rotate methods: the swap is made in the loop, once per
\* frame.
rotatePerFrame(an, fl) ==
    IF Len(fl) % 2 = 1
    THEN [an EXCEPT !.width = an.height, !.height = an.width]
    ELSE an

\* A slip in the rotate methods: the swap is made without the temporary.
rotateWithoutTemp(an, fl) == [an EXCEPT !.width = an.height, !.height = an.height]

\* Animation.prototype.rotateClockwise / rotateCounterclockwise: the object.
rotate(an, fl) == [an EXCEPT !.width = an.height, !.height = an.width]

----------------------------------------------------------------------------
(* The Camera and the 2D context.  Coordinates of the Camera are counted   *)
(* in halves of a pixel, so that a Camera may sit between two pixels; the  *)
(* context is translated by whole pixels.                                  *)

\* function Camera(x, y, width, height): width and height do nothing.
Camera(x, y) == [x |-> x, y |-> y]

\* v|0 for a coordinate v in halves of a pixel: the fraction is dropped,
\* towards 0 (the coordinates of the model are far below 2^31).
toInt32(v) == IF v >= 0 THEN v \div 2 ELSE -((-v) \div 2)

\* A context as a canvas hands it out: not translated, nothing saved.
NewContext == [tx |-> 0, ty |-> 0, saved |-> <<>>]

\* context.save(): the translation is pushed on the stack of saved states.
contextSave(c) == [c EXCEPT !.saved = Append(@, [tx |-> c.tx, ty |-> c.ty])]

\* context.translate(x, y)
contextTranslate(c, x, y) == [c EXCEPT !.tx = @ + x, !.ty = @ + y]

\* context.restore(): the state saved last is popped and becomes the state
\* of the context; with nothing saved, the call does nothing.
contextRestore(c) ==
    IF Len(c.saved) = 0 THEN c
    ELSE [tx |-> c.saved[Len(c.saved)].tx, ty |-> c.saved[Len(c.saved)].ty,
          saved |-> SubSeq(c.saved, 1, Len(c.saved) - 1)]

\* Camera.prototype.draw: the context after the call.
cameraDraw(cam, c) == contextTranslate(c, -toInt32(cam.x), -toInt32(cam.y))

\* Camera.prototype.drawAbsolute, up to the call of drawFunc.
drawAbsoluteEnter(cam, c) ==
    contextTranslate(contextSave(c), toInt32(cam.x), toInt32(cam.y))

\* Camera.prototype.drawAbsolute: the context after the call.  drawFunc
\* has left the context as `drawn`; when it threw, the exception leaves
\* drawAbsolute at the call of drawFunc, and context.restore() is not
\* reached.
drawAbsolute(drawn, thrown) == IF thrown THEN drawn ELSE contextRestore(drawn)

\* The specifications of the Animation have no Camera in them.
NoCanvas == camera = Camera(0, 0) /\ context = NewContext

----------------------------------------------------------------------------
(* The calls, as actions on the heap.  `a` is the Animation the method is  *)
(* called on.  Each Call* action is one whole method call and says what    *)
(* becomes of `lists` and `anims`; what it leaves to observe (`result`)    *)
(* and to remember (`history`, `probe`) is added by the specification that *)
(* uses it.                                                                *)

Anims == 1..Len(anims)

\* The frames array of Animation a.
FramesOf(a) == lists[anims[a].frames]

\* A slip in copy(): elapsedMillis is left as the constructor set it.
copyWithoutElapsed(an) ==
    [frames |-> an.frames, frame |-> an.frame, elapsedMillis |-> 0,
     repeatAt |-> an.repeatAt, width |-> an.width, height |-> an.height]

\* Animation.prototype.copy: the new object.
copy(an) ==
    [frames |-> an.frames, frame |-> an.frame, elapsedMillis |-> an.elapsedMillis,
     repeatAt |-> an.repeatAt, width |-> an.width, height |-> an.height]

CallCopy(a) ==
    /\ anims' = Append(anims, copy(anims[a]))
    /\ UNCHANGED <<lists, camera, context>>

CallAdd(a, img, time) ==
    /\ lists' = [lists EXCEPT ![anims[a].frames] = addFrames(@, img, time)]
    /\ anims' = [anims EXCEPT ![a] = add(@, FramesOf(a), img)]
    /\ UNCHANGED <<camera, context>>

CallStep(a) ==
    /\ anims' = [anims EXCEPT ![a] = step(@, FramesOf(a))]
    /\ UNCHANGED <<lists, camera, context>>

CallMove(a, elapsedMillis) ==
    /\ anims' = [anims EXCEPT ![a] = move(@, FramesOf(a), elapsedMillis)]
    /\ UNCHANGED <<lists, camera, context>>

\* Animation.prototype.draw changes nothing of the Animation; its one call
\* on the context, drawImage, leaves the state of the context as it is.
CallDraw(a) == UNCHANGED <<lists, anims, camera, context>>

CallReset(a) ==
    /\ anims' = [anims EXCEPT ![a] = reset(@)]
    /\ UNCHANGED <<lists, camera, context>>

\* Animation.prototype.flipHorizontally
CallFlipHorizontally(a) ==
    /\ lists' = [lists EXCEPT ![anims[a].frames] = flippedHorizontally(@)]
    /\ UNCHANGED <<anims, camera, context>>

\* Animation.prototype.flipVertically
CallFlipVertically(a) ==
    /\ lists' = [lists EXCEPT ![anims[a].frames] = flippedVertically(@)]
    /\ UNCHANGED <<anims, camera, context>>

\* Animation.prototype.rotateClockwise
CallRotateClockwise(a) ==
    /\ anims' = [anims EXCEPT ![a] = rotate(@, FramesOf(a))]
    /\ lists' = [lists EXCEPT ![anims[a].frames] = rotatedClockwise(@)]
    /\ UNCHANGED <<camera, context>>

\* Animation.prototype.rotateCounterclockwise
CallRotateCounterclockwise(a) ==
    /\ anims' = [anims EXCEPT ![a] = rotate(@, FramesOf(a))]
    /\ lists' = [lists EXCEPT ![anims[a].frames] = rotatedCounterclockwise(@)]
    /\ UNCHANGED <<camera, context>>

\* An assignment to the public member repeatAt.
CallSetRepeatAt(a, k) ==
    /\ anims' = [anims EXCEPT ![a].repeatAt = k]
    /\ UNCHANGED <<lists, camera, context>>

\* What a call leaves to observe.
Returned == [thrown |-> FALSE, drawn |-> <<>>]
Threw == [thrown |-> TRUE, drawn |-> <<>>]

\* move() on Animation a: it throws when its loop reads an undefined frame.
ResultOfMove(a, elapsedMillis) ==
    IF moveThrows(anims[a], FramesOf(a), elapsedMillis) THEN Threw ELSE Returned

\* draw() on Animation a: reading .img of an undefined frame throws.
ResultOfDraw(a) ==
    IF HasFrame(anims[a], FramesOf(a))
    THEN [thrown |-> FALSE, drawn |-> <<drawnImage(anims[a], FramesOf(a))>>]
    ELSE Threw

----------------------------------------------------------------------------
(* Spec: one Animation is constructed; then any call, on it or on a copy,  *)
(* and any assignment to repeatAt its documentation allows (the index of a *)
(* frame).                                                                 *)

Free == [pc |-> "free"]

\* What is remembered of a new Animation: whether the number of rotate calls
\* made on it is odd (calls), whether its width and height were taken from a
\* first frame (taken), and whether the number of rotate calls made since
\* then is odd (turns).
NoHistory == [calls |-> 0, taken |-> FALSE, turns |-> 0]

Init ==
    /\ lists = << <<>> >>
    /\ anims = <<Animation(1)>>
    /\ history = <<NoHistory>>
    /\ NoCanvas
    /\ result = Returned
    /\ probe = Free

Unobserved == UNCHANGED <<result, history, probe>>

Copy == \E a \in Anims : Len(anims) < MaxAnims /\ CallCopy(a) /\ Unobserved
Add == \E a \in Anims, img \in Images :
           /\ Len(FramesOf(a)) < MaxFrames
           /\ CallAdd(a, img, TimeOf(img))
           /\ Unobserved
Step == \E a \in Anims : CallStep(a) /\ Unobserved
Move == \E a \in Anims, d \in 0..MaxDelta :
            /\ move(anims[a], FramesOf(a), d).elapsedMillis <= MaxElapsed
            /\ CallMove(a, d)
            /\ Unobserved
Draw == \E a \in Anims : CallDraw(a) /\ Unobserved
Reset == \E a \in Anims : CallReset(a) /\ Unobserved
FlipHorizontally == \E a \in Anims : CallFlipHorizontally(a) /\ Unobserved
FlipVertically == \E a \in Anims : CallFlipVertically(a) /\ Unobserved
RotateClockwise == \E a \in Anims : CallRotateClockwise(a) /\ Unobserved
RotateCounterclockwise == \E a \in Anims : CallRotateCounterclockwise(a) /\ Unobserved
SetRepeatAt == \E a \in Anims : \E k \in 0..(Len(FramesOf(a)) - 1) :
                   CallSetRepeatAt(a, k) /\ Unobserved

Next ==
    \/ Copy
    \/ Add
    \/ Step
    \/ Move
    \/ Draw
    \/ Reset
    \/ FlipHorizontally
    \/ FlipVertically
    \/ RotateClockwise
    \/ RotateCounterclockwise
    \/ SetRepeatAt

Spec == Init /\ [][Next]_vars

\* C5: an Animation that holds frames and whose repeatAt is the index of a
\* frame has its cursor on a frame of the array, 0 <= frame < frames.length,
\* after any sequence of calls.
CursorInRange ==
    \A a \in Anims :
        (/\ Len(FramesOf(a)) >= 1
         /\ anims[a].repeatAt >= 0 /\ anims[a].repeatAt < Len(FramesOf(a)))
            => (anims[a].frame >= 0 /\ anims[a].frame < Len(FramesOf(a)))

\* C5, witness: an Animation and its copy on two frames that were flipped
\* and rotated; one wrapped to repeatAt = 1, the other is on frame 0 after
\* a move and a reset of its own.
CursorInRangeWitness ==
    /\ Len(anims) = 2
    /\ Len(lists[1]) = 2
    /\ lists[1][1].img.mirrored /\ lists[1][1].img.rot = 1
    /\ anims[1].repeatAt = 1 /\ anims[1].frame = 1 /\ anims[1].elapsedMillis = 0
    /\ anims[2].repeatAt = 0 /\ anims[2].frame = 0 /\ anims[2].elapsedMillis = 2

----------------------------------------------------------------------------
(* SpecAdvance: an Animation x that holds frames, in any state of its      *)
(* cursor, is copied to y; x is moved by d1 and then by d2, y is moved by  *)
(* d1 + d2.  Times and deltas are those of the documented example, 100 ms  *)
(* frames moved by 250 ms and 60 ms, and values around them.               *)

ProbeTimes == {50, 100}
ProbeDeltas == {0, 50, 60, 100, 250}
ProbeElapsed == {0, 10, 50, 100}

ProbeFrame(time) == [img |-> Image(1, 2), time |-> time]

\* The frames arrays a scenario starts from.
ProbeLists ==
    UNION {[1..n -> {ProbeFrame(t) : t \in ProbeTimes}] : n \in 1..ProbeFrames}

\* An Animation that holds the frames of array 1, its cursor on frame f with
\* e ms elapsed, its repeatAt set to k.
Loaded(f, e, k) ==
    [frames |-> 1, frame |-> f, elapsedMillis |-> e, repeatAt |-> k,
     width |-> 1, height |-> 2]

InitAdvance ==
    \E fl \in ProbeLists, e \in ProbeElapsed, d1 \in ProbeDeltas, d2 \in ProbeDeltas :
        \E f \in 0..(Len(fl) - 1), k \in 0..(Len(fl) - 1) :
            /\ lists = <<fl>>
            /\ anims = <<Loaded(f, e, k)>>
            /\ history = <<NoHistory>>
            /\ NoCanvas
            /\ result = Returned
            /\ probe = [pc |-> "start", d1 |-> d1, d2 |-> d2,
                        start |-> Loaded(f, e, k), before |-> Loaded(f, e, k)]

AdvanceCopy ==
    /\ probe.pc = "start"
    /\ CallCopy(1)
    /\ probe' = [probe EXCEPT !.pc = "copied"]
    /\ UNCHANGED <<result, history>>

AdvanceFirst ==
    /\ probe.pc = "copied"
    /\ CallMove(1, probe.d1)
    /\ probe' = [probe EXCEPT !.pc = "first"]
    /\ UNCHANGED <<result, history>>

AdvanceSecond ==
    /\ probe.pc = "first"
    /\ CallMove(1, probe.d2)
    /\ probe' = [probe EXCEPT !.pc = "second", !.before = anims[1]]
    /\ UNCHANGED <<result, history>>

AdvanceWhole ==
    /\ probe.pc = "second"
    /\ CallMove(2, probe.d1 + probe.d2)
    /\ probe' = [probe EXCEPT !.pc = "whole"]
    /\ UNCHANGED <<result, history>>

NextAdvance ==
    \/ AdvanceCopy
    \/ AdvanceFirst
    \/ AdvanceSecond
    \/ AdvanceWhole

SpecAdvance == InitAdvance /\ [][NextAdvance]_vars

\* The cursor of an Animation.
Cursor(an) == <<an.frame, an.elapsedMillis>>

\* C1: move(d1) followed by move(d2) ends with the same frame and the same
\* elapsedMillis as one move(d1 + d2) from the same state, for every
\* Animation that holds frames and all d1, d2 >= 0.
MoveIsAdditive ==
    probe.pc = "whole" => Cursor(anims[1]) = Cursor(anims[2])

\* C1, witness: both moves of x crossed to another frame, and y has made its
\* single move.
MoveIsAdditiveWitness ==
    /\ probe.pc = "whole"
    /\ probe.d1 > 0 /\ probe.d2 > 0
    /\ probe.before.frame /= probe.start.frame
    /\ anims[1].frame /= probe.before.frame
    /\ anims[1].frame /= anims[1].repeatAt

\* The documented example: frames [(A,100),(B,100),(C,100)].
ExampleFrames == [i \in 1..3 |-> ProbeFrame(100)]

\* The index that follows index i in an array of n frames that repeats at k.
IndexAfter(i, n, k) == IF i + 1 >= n THEN k ELSE i + 1

\* The index reached from i after c frames were crossed.
RECURSIVE IndexReached(_, _, _, _)
IndexReached(i, n, k, c) ==
    IF c = 0 THEN i ELSE IndexReached(IndexAfter(i, n, k), n, k, c - 1)

\* The sum of the times of the c frames crossed from index i on.
RECURSIVE TimeCrossed(_, _, _, _)
TimeCrossed(fl, i, k, c) ==
    IF c = 0 THEN 0
    ELSE fl[i + 1].time + TimeCrossed(fl, IndexAfter(i, Len(fl), k), k, c - 1)

ShortestTime == CHOOSE t \in ProbeTimes : \A u \in ProbeTimes : t <= u

\* `after` is `before` moved by d as documented: d is added to
\* elapsedMillis, then c whole frames are crossed in playback order, each
\* one because what was left exceeded its time, and what is left at the end
\* does not exceed the time of the frame reached.
Advanced(before, fl, d, after) ==
    \E c \in 0..((before.elapsedMillis + d) \div ShortestTime) :
        LET left(j) == before.elapsedMillis + d
                           - TimeCrossed(fl, before.frame, before.repeatAt, j)
            at(j) == IndexReached(before.frame, Len(fl), before.repeatAt, j)
        IN  /\ \A j \in 0..(c - 1) : left(j) > fl[at(j) + 1].time
            /\ left(c) <= fl[at(c) + 1].time
            /\ after = [before EXCEPT !.frame = at(c), !.elapsedMillis = left(c)]

IsExample ==
    /\ lists[1] = ExampleFrames
    /\ Cursor(probe.start) = <<0, 0>>
    /\ probe.start.repeatAt = 0
    /\ probe.d1 = 250

\* C2: move(d) adds d to elapsedMillis and then crosses whole frames in
\* playback order, one step per frame crossed, wrapping to repeatAt after
\* the last frame; with three frames of 100 ms, repeatAt 0 and the cursor at
\* (0, 0), move(250) ends at frame 2 with 50 ms elapsed and a further
\* move(60) at frame 0 with 10 ms elapsed.
MoveCrossesFrames ==
    /\ probe.pc = "first" =>
           /\ Advanced(probe.start, lists[1], probe.d1, anims[1])
           /\ IsExample => Cursor(anims[1]) = <<2, 50>>
    /\ probe.pc = "second" =>
           /\ Advanced(probe.before, lists[1], probe.d2, anims[1])
           /\ (IsExample /\ probe.d2 = 60) => Cursor(anims[1]) = <<0, 10>>
    /\ probe.pc = "whole" =>
           Advanced(probe.start, lists[1], probe.d1 + probe.d2, anims[2])

\* C2, witness: the example has been played to its end.
MoveCrossesFramesWitness ==
    /\ probe.pc = "second"
    /\ IsExample
    /\ probe.d2 = 60
    /\ Cursor(probe.before) = <<2, 50>>
    /\ Cursor(anims[1]) = <<0, 10>>

\* The time of the frame the cursor of `an` is on.
TimeAtCursor(an) == lists[an.frames][an.frame + 1].time

\* C3 as stated: move(d) with d equal to the time of the current frame
\* leaves the cursor on the same frame.
MoveByFrameTimeStays ==
    (probe.pc = "first" /\ probe.d1 = TimeAtCursor(probe.start))
        => anims[1].frame = probe.start.frame

\* C3, amended: move(d) with d equal to the time of the current frame leaves
\* the cursor on the same frame when elapsedMillis is 0 before the call.
MoveByFrameTimeStaysFromZero ==
    (/\ probe.pc = "first"
     /\ probe.d1 = TimeAtCursor(probe.start)
     /\ probe.start.elapsedMillis = 0)
        => anims[1].frame = probe.start.frame

\* C3, witness: from 0 ms elapsed, a move by the time of the current frame,
\* in an Animation whose next step would have changed the frame.
MoveByFrameTimeStaysWitness ==
    /\ probe.pc = "first"
    /\ probe.d1 = TimeAtCursor(probe.start)
    /\ probe.start.elapsedMillis = 0
    /\ step(probe.start, lists[1]).frame /= probe.start.frame
    /\ Cursor(anims[1]) = <<probe.start.frame, probe.d1>>

\* elapsedMillis of `an` is in the range the data model gives it.
ElapsedBelowTime(an) ==
    0 <= an.elapsedMillis /\ an.elapsedMillis < TimeAtCursor(an)

\* elapsedMillis of `an` is at most the time of the current frame.
ElapsedWithinTime(an) ==
    0 <= an.elapsedMillis /\ an.elapsedMillis <= TimeAtCursor(an)

\* C4 as stated: after a move() returns, 0 <= elapsedMillis and
\* elapsedMillis < the time of the current frame.
ElapsedBelowTimeAfterMove ==
    /\ probe.pc \in {"first", "second"} => ElapsedBelowTime(anims[1])
    /\ probe.pc = "whole" => ElapsedBelowTime(anims[2])

\* C4, amended: after a move() by a delta >= 0 returns, on frames of
\* positive times and from elapsedMillis >= 0, 0 <= elapsedMillis and
\* elapsedMillis <= the time of the current frame (equality included).
ElapsedWithinTimeAfterMove ==
    /\ probe.pc \in {"first", "second"} => ElapsedWithinTime(anims[1])
    /\ probe.pc = "whole" => ElapsedWithinTime(anims[2])

\* C4, witness: a move() that crossed frames has returned with elapsedMillis
\* equal to the time of the frame it reached.
ElapsedWithinTimeWitness ==
    /\ probe.pc = "first"
    /\ anims[1].frame /= probe.start.frame
    /\ anims[1].elapsedMillis = TimeAtCursor(anims[1])

----------------------------------------------------------------------------
(* SpecPlay: an Animation that holds frames, in any state of its cursor    *)
(* and with any repeatAt its documentation allows, is played: MaxCalls     *)
(* calls of step() and move(), in any order.  repeatAt stays as it is.     *)

InitPlay ==
    \E fl \in ProbeLists, e \in ProbeElapsed :
        \E f \in 0..(Len(fl) - 1), k \in 0..(Len(fl) - 1) :
            /\ lists = <<fl>>
            /\ anims = <<Loaded(f, e, k)>>
            /\ history = <<NoHistory>>
            /\ NoCanvas
            /\ result = Returned
            /\ probe = [pc |-> "play", start |-> f, steps |-> 0, moves |-> 0,
                        reached |-> f >= k, wrapped |-> FALSE]

\* The cursor has been on a frame at or after repeatAt.
Reached(an) == probe.reached \/ an.frame >= an.repeatAt

PlayStep ==
    /\ probe.pc = "play"
    /\ probe.steps + probe.moves < MaxCalls
    /\ CallStep(1)
    /\ probe' = [probe EXCEPT !.steps = @ + 1,
                              !.reached = Reached(anims'[1]),
                              !.wrapped = @ \/ anims[1].frame + 1 = Len(lists[1])]
    /\ UNCHANGED <<result, history>>

PlayMove ==
    \E d \in ProbeDeltas :
        /\ probe.pc = "play"
        /\ probe.steps + probe.moves < MaxCalls
        /\ CallMove(1, d)
        /\ probe' = [probe EXCEPT !.moves = @ + 1, !.reached = Reached(anims'[1])]
        /\ UNCHANGED <<result, history>>

NextPlay ==
    \/ PlayStep
    \/ PlayMove

SpecPlay == InitPlay /\ [][NextPlay]_vars

\* C6: with repeatAt = 0, frames.length calls of step() from any frame of
\* the array bring the cursor back to that frame.
StepCycles ==
    (/\ probe.pc = "play"
     /\ probe.moves = 0
     /\ probe.steps = Len(lists[1])
     /\ anims[1].repeatAt = 0)
        => anims[1].frame = probe.start

\* C6, witness: a cycle of three steps that started on the last frame, and
\* so wrapped at its first step.
StepCyclesWitness ==
    /\ probe.pc = "play"
    /\ probe.moves = 0
    /\ Len(lists[1]) = 3
    /\ probe.steps = 3
    /\ anims[1].repeatAt = 0
    /\ probe.start = 2
    /\ anims[1].frame = 2

\* C7: with repeatAt = k, once the cursor has been on a frame >= k no
\* step() or move() takes it to a frame < k; with k the last index, it
\* stays on the last frame.
RepeatAtConfines ==
    (probe.pc = "play" /\ probe.reached) =>
        /\ anims[1].frame >= anims[1].repeatAt
        /\ anims[1].repeatAt = Len(lists[1]) - 1 => anims[1].frame = Len(lists[1]) - 1

\* C7, witness: with repeatAt = 1 and three frames, the cursor started on
\* frame 0, a step() wrapped it past the last frame, and a move() was made.
RepeatAtConfinesWitness ==
    /\ probe.pc = "play"
    /\ probe.start = 0
    /\ anims[1].repeatAt = 1
    /\ Len(lists[1]) = 3
    /\ probe.wrapped
    /\ probe.moves > 0
    /\ anims[1].frame = 1

----------------------------------------------------------------------------
(* SpecDims: one Animation is constructed; then any call of a method, on   *)
(* it or on a copy, with the rotate calls made on each Animation           *)
(* remembered in `history`.  repeatAt stays as the constructor set it.     *)

Remembering == UNCHANGED <<result, probe, history>>

DimsCopy ==
    \E a \in Anims :
        /\ Len(anims) < MaxAnims
        /\ CallCopy(a)
        /\ history' = Append(history, [history[a] EXCEPT !.calls = 0])
        /\ UNCHANGED <<result, probe>>

DimsAdd ==
    \E a \in Anims, img \in Images :
        /\ Len(FramesOf(a)) < MaxFrames
        /\ CallAdd(a, img, TimeOf(img))
        /\ history' = IF Len(FramesOf(a)) = 0
                      THEN [history EXCEPT ![a].taken = TRUE, ![a].turns = 0]
                      ELSE history
        /\ UNCHANGED <<result, probe>>

DimsStep == \E a \in Anims : CallStep(a) /\ Remembering

DimsMove ==
    \E a \in Anims, d \in 0..MaxDelta :
        /\ move(anims[a], FramesOf(a), d).elapsedMillis <= MaxElapsed
        /\ CallMove(a, d)
        /\ Remembering

DimsDraw == \E a \in Anims : CallDraw(a) /\ Remembering

DimsReset == \E a \in Anims : CallReset(a) /\ Remembering

DimsFlipHorizontally == \E a \in Anims : CallFlipHorizontally(a) /\ Remembering

DimsFlipVertically == \E a \in Anims : CallFlipVertically(a) /\ Remembering

Turned(h) == [h EXCEPT !.calls = 1 - @, !.turns = 1 - @]

DimsRotateClockwise ==
    \E a \in Anims :
        /\ CallRotateClockwise(a)
        /\ history' = [history EXCEPT ![a] = Turned(@)]
        /\ UNCHANGED <<result, probe>>

DimsRotateCounterclockwise ==
    \E a \in Anims :
        /\ CallRotateCounterclockwise(a)
        /\ history' = [history EXCEPT ![a] = Turned(@)]
        /\ UNCHANGED <<result, probe>>

NextDims ==
    \/ DimsCopy
    \/ DimsAdd
    \/ DimsStep
    \/ DimsMove
    \/ DimsDraw
    \/ DimsReset
    \/ DimsFlipHorizontally
    \/ DimsFlipVertically
    \/ DimsRotateClockwise
    \/ DimsRotateCounterclockwise

SpecDims == Init /\ [][NextDims]_vars

\* The dimensions an image had when it was added: a quarter turn swaps them.
OriginalDims(img) == IF img.rot % 2 = 1 THEN <<img.h, img.w>> ELSE <<img.w, img.h>>

\* The dimensions d, swapped once if n is odd.
SwappedTimes(d, n) == IF n % 2 = 1 THEN <<d[2], d[1]>> ELSE d

DimsOfSharedFirstFrame ==
    \A a \in Anims :
        (/\ \E b \in Anims : b /= a /\ anims[b].frames = anims[a].frames
         /\ Len(FramesOf(a)) >= 1)
            => <<anims[a].width, anims[a].height>> =
                   <<FramesOf(a)[1].img.w, FramesOf(a)[1].img.h>>

----------------------------------------------------------------------------
(* SpecAlias: an Animation that holds frames, in any state of its cursor,  *)
(* is copied; the two are stepped, moved and reset and their repeatAt is   *)
(* assigned, in any order; then the original is flipped or rotated and the *)
(* copy is drawn.                                                          *)

\* The frames arrays the scenario starts from, as a loader adds them.
LoadedLists ==
    UNION {[1..n -> {[img |-> img, time |-> TimeOf(img)] : img \in Images}] :
               n \in 1..MaxFrames}

\* The fields a copy has of its own.
OwnFields(an) ==
    <<an.frame, an.elapsedMillis, an.repeatAt, an.width, an.height>>

InitAlias ==
    \E fl \in LoadedLists, e \in 0..MaxElapsed :
        \E f \in 0..(Len(fl) - 1), k \in 0..(Len(fl) - 1) :
            /\ lists = <<fl>>
            /\ anims = <<[Loaded(f, e, k) EXCEPT !.width = fl[1].img.w,
                                                 !.height = fl[1].img.h]>>
            /\ history = <<NoHistory>>
            /\ NoCanvas
            /\ result = Returned
            /\ probe = [pc |-> "loaded", on |-> 0, kept |-> <<>>,
                        op |-> "", before |-> <<>>]

AliasCopy ==
    /\ probe.pc = "loaded"
    /\ CallCopy(1)
    /\ probe' = [probe EXCEPT !.pc = "copied", !.kept = OwnFields(anims[1])]
    /\ UNCHANGED <<result, history>>

\* A call on Animation a while the two are played: what the other one's
\* own fields were before the call is kept.
Playing(a) ==
    /\ probe.pc \in {"copied", "played"}
    /\ probe' = [probe EXCEPT !.pc = "played", !.on = a,
                              !.kept = OwnFields(anims[3 - a])]
    /\ UNCHANGED <<result, history>>

AliasStep == \E a \in Anims : Playing(a) /\ CallStep(a)

AliasMove ==
    \E a \in Anims, d \in 0..MaxDelta :
        /\ move(anims[a], FramesOf(a), d).elapsedMillis <= MaxElapsed
        /\ Playing(a)
        /\ CallMove(a, d)

AliasReset == \E a \in Anims : Playing(a) /\ CallReset(a)

AliasSetRepeatAt ==
    \E a \in Anims : \E k \in 0..(Len(FramesOf(a)) - 1) :
        Playing(a) /\ CallSetRepeatAt(a, k)

\* A flip or rotate call on the original: the frames as they were before
\* the call are kept.
Transforming(op) ==
    /\ probe.pc \in {"copied", "played"}
    /\ probe' = [probe EXCEPT !.pc = "transformed", !.op = op, !.before = lists[1]]
    /\ UNCHANGED <<result, history>>

AliasFlipHorizontally == Transforming("flipHorizontally") /\ CallFlipHorizontally(1)

AliasFlipVertically == Transforming("flipVertically") /\ CallFlipVertically(1)

AliasRotateClockwise == Transforming("rotateClockwise") /\ CallRotateClockwise(1)

AliasRotateCounterclockwise ==
    Transforming("rotateCounterclockwise") /\ CallRotateCounterclockwise(1)

AliasDraw ==
    /\ probe.pc = "transformed"
    /\ CallDraw(2)
    /\ result' = ResultOfDraw(2)
    /\ probe' = [probe EXCEPT !.pc = "drawn"]
    /\ UNCHANGED history

NextAlias ==
    \/ AliasCopy
    \/ AliasStep
    \/ AliasMove
    \/ AliasReset
    \/ AliasSetRepeatAt
    \/ AliasFlipHorizontally
    \/ AliasFlipVertically
    \/ AliasRotateClockwise
    \/ AliasRotateCounterclockwise
    \/ AliasDraw

SpecAlias == InitAlias /\ [][NextAlias]_vars

\* C8: copy() returns an Animation whose frame, elapsedMillis, repeatAt,
\* width and height are those of the source at the call; afterwards a
\* step(), move(), reset() or assignment to repeatAt on one of the two
\* leaves these five fields of the other as they were.
CopyIsIndependent ==
    /\ probe.pc = "copied" =>
           (OwnFields(anims[2]) = probe.kept /\ OwnFields(anims[1]) = probe.kept)
    /\ probe.pc = "played" => OwnFields(anims[3 - probe.on]) = probe.kept

\* C8, witness: the copy was played last, and the two, on the same frames
\* array, have come to differ in frame, elapsedMillis and repeatAt.
CopyIsIndependentWitness ==
    /\ probe.pc = "played"
    /\ probe.on = 2
    /\ anims[1].frames = anims[2].frames
    /\ anims[1].frame /= anims[2].frame
    /\ anims[1].elapsedMillis /= anims[2].elapsedMillis
    /\ anims[1].repeatAt /= anims[2].repeatAt
    /\ OwnFields(anims[1]) = probe.kept

\* What the buffer module makes of an image for each of the four methods.
Transformed(op, img) ==
    CASE op = "flipHorizontally" -> flipBufferHorizontally(img)
      [] op = "flipVertically" -> flipBufferVertically(img)
      [] op = "rotateClockwise" -> bufferRotateClockwise(img)
      [] op = "rotateCounterclockwise" -> bufferRotateCounterclockwise(img)

\* C9: after copy(), a flip or rotate call on the original replaces the
\* images of the shared frames array, so that a draw() on the copy hands
\* the transformed image of the copy's current frame to the context.
CopyDrawsTransformed ==
    probe.pc = "drawn" =>
        result = [thrown |-> FALSE,
                  drawn |-> <<Transformed(probe.op,
                                          probe.before[anims[2].frame + 1].img)>>]

\* C9, witness: the original, on frame 0, was flipped horizontally, and the
\* copy, on frame 1 of the same array, drew the mirrored second image.
CopyDrawsTransformedWitness ==
    /\ probe.pc = "drawn"
    /\ probe.op = "flipHorizontally"
    /\ anims[1].frames = anims[2].frames
    /\ anims[1].frame = 0 /\ anims[2].frame = 1
    /\ probe.before[1].img /= probe.before[2].img
    /\ result.drawn = <<flipBufferHorizontally(probe.before[2].img)>>
    /\ result.drawn[1].mirrored

----------------------------------------------------------------------------
(* SpecSolo: one Animation is constructed and frames are added to it; it   *)
(* is stepped, moved, drawn, reset and rotated and its repeatAt is         *)
(* assigned, in any order (the flips, which replace images by images of    *)
(* the same size, are left to Spec, SpecDims and SpecAlias).  After each   *)
(* call the name of the method, and the Animation and its frames array as  *)
(* they were before the call, are kept.  A rotateCounterclockwise() that   *)
(* directly follows a rotateClockwise() is kept as "roundTrip", with what  *)
(* was there before the two calls.                                         *)

Called(op) ==
    /\ probe' = [pc |-> "solo", op |-> op, before |-> anims[1], list |-> lists[1]]
    /\ UNCHANGED history

InitSolo ==
    /\ lists = << <<>> >>
    /\ anims = <<Animation(1)>>
    /\ history = <<NoHistory>>
    /\ NoCanvas
    /\ result = Returned
    /\ probe = [pc |-> "solo", op |-> "new", before |-> Animation(1), list |-> <<>>]

SoloAdd ==
    \E img \in Images :
        /\ Len(FramesOf(1)) < MaxFrames
        /\ CallAdd(1, img, TimeOf(img))
        /\ result' = Returned
        /\ Called("add")

SoloStep == CallStep(1) /\ result' = Returned /\ Called("step")

SoloMove ==
    \E d \in 0..MaxDelta :
        /\ move(anims[1], FramesOf(1), d).elapsedMillis <= MaxElapsed
        /\ CallMove(1, d)
        /\ result' = ResultOfMove(1, d)
        /\ Called("move")

SoloDraw == CallDraw(1) /\ result' = ResultOfDraw(1) /\ Called("draw")

SoloReset == CallReset(1) /\ result' = Returned /\ Called("reset")

SoloRotateClockwise ==
    CallRotateClockwise(1) /\ result' = Returned /\ Called("rotateClockwise")

SoloRotateCounterclockwise ==
    /\ CallRotateCounterclockwise(1)
    /\ result' = Returned
    /\ IF probe.op = "rotateClockwise"
       THEN probe' = [probe EXCEPT !.op = "roundTrip"] /\ UNCHANGED history
       ELSE Called("rotateCounterclockwise")

SoloSetRepeatAt ==
    \E k \in 0..(Len(FramesOf(1)) - 1) :
        CallSetRepeatAt(1, k) /\ result' = Returned /\ Called("repeatAt")

NextSolo ==
    \/ SoloAdd
    \/ SoloStep
    \/ SoloMove
    \/ SoloDraw
    \/ SoloReset
    \/ SoloRotateClockwise
    \/ SoloRotateCounterclockwise
    \/ SoloSetRepeatAt

SpecSolo == InitSolo /\ [][NextSolo]_vars

\* (width, height) of an Animation.
Dims(an) == <<an.width, an.height>>

\* C11: the add() that pushes the first frame sets width and height to the
\* dimensions of its image, and an add() on an Animation that already holds
\* a frame leaves width and height as they were, whatever the dimensions of
\* the image added.
AddKeepsDims ==
    probe.op = "add" =>
        IF Len(probe.list) = 0
        THEN Dims(anims[1]) = <<lists[1][1].img.w, lists[1][1].img.h>>
        ELSE Dims(anims[1]) = Dims(probe.before)

\* C11, witness: a 3 x 1 image was added to an Animation that holds a 1 x 2
\* image, shown since a rotate call as 2 x 1, and the Animation is 2 x 1
\* still.
AddKeepsDimsWitness ==
    /\ probe.op = "add"
    /\ Len(probe.list) = 1
    /\ probe.list[1].img.rot = 1
    /\ lists[1][2].img = Image(3, 1)
    /\ Dims(anims[1]) = <<2, 1>>
    /\ Dims(probe.before) = <<2, 1>>

\* C12: reset() leaves the Animation on frame 0 with elapsedMillis = 0,
\* whatever repeatAt is and wherever step() and move() had brought it, and
\* leaves the frames array, repeatAt, width and height as they were.
ResetRestarts ==
    probe.op = "reset" =>
        /\ anims[1].frame = 0
        /\ anims[1].elapsedMillis = 0
        /\ anims[1] = [probe.before EXCEPT !.frame = 0, !.elapsedMillis = 0]
        /\ lists[1] = probe.list

\* C12, witness: an Animation of two frames that repeats at frame 1, and
\* had spent time on frame 1, is on frame 0 after reset().
ResetRestartsWitness ==
    /\ probe.op = "reset"
    /\ Len(lists[1]) = 2
    /\ probe.before.frame = 1
    /\ probe.before.elapsedMillis = 2
    /\ anims[1].repeatAt = 1
    /\ anims[1].frame = 0
    /\ anims[1].elapsedMillis = 0

\* C13: rotateClockwise() followed by rotateCounterclockwise() leaves the
\* Animation with the width and height it had before the two calls, and
\* (the two rotations of the buffer module being inverse to each other)
\* every frame with the image and time it had.
RotateRoundTrip ==
    probe.op = "roundTrip" =>
        /\ Dims(anims[1]) = Dims(probe.before)
        /\ lists[1] = probe.list

\* C13, witness: an Animation of two frames of different sizes, the first
\* 1 x 2, is 1 x 2 again after the two calls.
RotateRoundTripWitness ==
    /\ probe.op = "roundTrip"
    /\ Len(lists[1]) = 2
    /\ lists[1][1].img = Image(1, 2)
    /\ lists[1][2].img = Image(3, 1)
    /\ Dims(anims[1]) = <<1, 2>>

\* C18: step() changes the field frame only: elapsedMillis, repeatAt, width,
\* height and the frames array are as they were before the call.
StepChangesFrameOnly ==
    probe.op = "step" =>
        /\ anims[1] = [probe.before EXCEPT !.frame = anims[1].frame]
        /\ lists[1] = probe.list

\* C18, witness: a step() from a frame shown for 2 ms, with 2 ms spent on
\* it, to a frame shown for 1 ms: elapsedMillis exceeds the time of the
\* frame the cursor is on.
StepChangesFrameOnlyWitness ==
    /\ probe.op = "step"
    /\ Len(lists[1]) = 2
    /\ anims[1].frame /= probe.before.frame
    /\ probe.list[probe.before.frame + 1].time = 2
    /\ lists[1][anims[1].frame + 1].time = 1
    /\ anims[1].elapsedMillis = 2

\* C16: step(), move() and draw() called on an Animation whose frames array
\* is empty throw, and leave frame and elapsedMillis as they were before
\* the call.
EmptyCallsRejected ==
    (probe.op \in {"step", "move", "draw"} /\ Len(probe.list) = 0) =>
        /\ result.thrown
        /\ anims[1].frame = probe.before.frame
        /\ anims[1].elapsedMillis = probe.before.elapsedMillis

----------------------------------------------------------------------------
(* SpecLoop: one move() call, one turn of its while loop at a time, on an  *)
(* Animation that holds frames, in any state of its cursor.  add() takes   *)
(* any number as the time of a frame, so that a frame may be shown for 0   *)
(* ms or for less; move() takes any number as well.  A script runs to      *)
(* completion: once the loop is entered, its next turn is taken.           *)

MaxLoopElapsed == 6    \* cap of elapsedMillis within the loop

LoopTimes == {-1, 0, 1, 2}
LoopDeltas == {-1, 0, 1, 3}

LoopLists ==
    UNION {[1..n -> {ProbeFrame(t) : t \in LoopTimes}] : n \in 1..ProbeFrames}

InitLoop ==
    \E fl \in LoopLists, e \in 0..MaxElapsed, d \in LoopDeltas :
        \E f \in 0..(Len(fl) - 1), k \in 0..(Len(fl) - 1) :
            /\ lists = <<fl>>
            /\ anims = <<Loaded(f, e, k)>>
            /\ history = <<NoHistory>>
            /\ NoCanvas
            /\ result = Returned
            /\ probe = [pc |-> "call", d |-> d, start |-> Loaded(f, e, k),
                        met |-> FALSE, doomed |-> FALSE]

\* Every frame that is shown again once the last frame is crossed (the
\* frames from repeatAt on) has a time of 0 ms or less.
RepeatsWithoutTime(an, fl) ==
    \A j \in (an.repeatAt + 1)..Len(fl) : fl[j].time <= 0

\* this.elapsedMillis += elapsedMillis
LoopEnter ==
    /\ probe.pc = "call"
    /\ anims' = [anims EXCEPT ![1].elapsedMillis = @ + probe.d]
    /\ probe' = [probe EXCEPT !.pc = "loop"]
    /\ UNCHANGED <<lists, result, history, camera, context>>

\* One turn of the loop.  It is remembered whether a turn was taken on a
\* frame of time <= 0 (met), and whether one was taken on a frame that is
\* shown again when no frame that is shown again takes time (doomed).
LoopTurn ==
    /\ probe.pc = "loop"
    /\ moveCondition(anims[1], FramesOf(1))
    /\ moveBody(anims[1], FramesOf(1)).elapsedMillis <= MaxLoopElapsed
    /\ anims' = [anims EXCEPT ![1] = moveBody(@, FramesOf(1))]
    /\ probe' = [probe EXCEPT
                     !.met = @ \/ CurrentFrame(anims[1], FramesOf(1)).time <= 0,
                     !.doomed = @ \/ (/\ anims[1].frame >= anims[1].repeatAt
                                      /\ RepeatsWithoutTime(anims[1], FramesOf(1)))]
    /\ UNCHANGED <<lists, result, history, camera, context>>

\* The condition of the loop is false: move() returns.
LoopExit ==
    /\ probe.pc = "loop"
    /\ ~moveCondition(anims[1], FramesOf(1))
    /\ probe' = [probe EXCEPT !.pc = "returned"]
    /\ UNCHANGED <<lists, anims, result, history, camera, context>>

NextLoop ==
    \/ LoopEnter
    \/ LoopTurn
    \/ LoopExit

SpecLoop == InitLoop /\ [][NextLoop]_vars

SpecLoopFair == SpecLoop /\ WF_vars(NextLoop)

\* Every frame of the array has a time above 0.
TimesPositive(fl) == \A j \in 1..Len(fl) : fl[j].time > 0

\* C14: on an Animation that holds at least one frame, every frame with a
\* time above 0 and repeatAt the index of a frame, a move() call whose loop
\* is entered returns: its loop takes finitely many turns, one step() each.
MoveTerminates ==
    (probe.pc = "loop" /\ TimesPositive(lists[1])) ~> (probe.pc = "returned")

\* C14, witness: a move() on three frames of positive times has returned
\* after it crossed frames that took 4 ms or more together, past the last
\* frame of the array.
MoveTerminatesWitness ==
    /\ probe.pc = "returned"
    /\ TimesPositive(lists[1])
    /\ Len(lists[1]) = 3
    /\ probe.start.frame = 2
    /\ probe.start.elapsedMillis + probe.d - anims[1].elapsedMillis >= 4

\* C15 as stated: a move() call whose loop takes a turn on a frame of time
\* <= 0 does not return.
MoveNeverReturnsFromTimelessFrame ==
    probe.pc = "returned" => ~probe.met

\* C15, amended: when every frame from repeatAt to the last frame has a time
\* <= 0, a move() call whose loop takes a turn on one of these frames does
\* not return: elapsedMillis is above 0 from then on and every later turn
\* finds it above the time of the frame the cursor is on.
MoveNeverReturnsFromTimelessRepeat ==
    /\ probe.pc = "returned" => ~probe.doomed
    /\ (probe.pc = "loop" /\ probe.doomed) =>
           (anims[1].elapsedMillis > 0 /\ moveCondition(anims[1], FramesOf(1)))

\* C15, witness: on frames of 2 ms, 0 ms and -1 ms that repeat at the
\* second, the loop has crossed the last frame more than once and
\* elapsedMillis has grown above what the call started with.
MoveNeverReturnsWitness ==
    /\ probe.pc = "loop"
    /\ probe.doomed
    /\ Len(lists[1]) = 3
    /\ lists[1][1].time = 2 /\ lists[1][2].time = 0 /\ lists[1][3].time = -1
    /\ anims[1].repeatAt = 1
    /\ probe.start.frame = 0
    /\ anims[1].elapsedMillis > probe.start.elapsedMillis + probe.d

\* C19: when a move() call returns, elapsedMillis is at most the time of
\* the frame the cursor is on, whatever the times and the argument are; and
\* when every time is above 0, the argument is 0 or more and elapsedMillis
\* was 0 or more before the call, elapsedMillis is 0 or more after it.
MoveReturnsWithinTime ==
    probe.pc = "returned" =>
        /\ anims[1].elapsedMillis <= TimeAtCursor(anims[1])
        /\ (/\ TimesPositive(lists[1])
            /\ probe.d >= 0
            /\ probe.start.elapsedMillis >= 0) => anims[1].elapsedMillis >= 0

\* C19, witness: a move() by 3 ms has crossed a 2 ms frame and returned on
\* a frame of 1 ms with elapsedMillis = 1, the time of that frame.
MoveReturnsWithinTimeWitness ==
    /\ probe.pc = "returned"
    /\ TimesPositive(lists[1])
    /\ probe.d = 3
    /\ probe.start.elapsedMillis = 0
    /\ lists[1][probe.start.frame + 1].time = 2
    /\ anims[1].frame /= probe.start.frame
    /\ TimeAtCursor(anims[1]) = 1
    /\ anims[1].elapsedMillis = 1

----------------------------------------------------------------------------
(* SpecCamera: a Camera and a context.  The Camera is placed by            *)
(* assignments to its x and y, offsets the context (draw) and draws at     *)
(* not-offset coordinates (drawAbsolute) with a callback that translates   *)
(* the context for its own drawing and then returns or throws.  After each *)
(* call the name of the method and the context as it was before the call   *)
(* are kept.                                                               *)

MaxShift == 2    \* cap of the translation of the context, in pixels
MaxSaved == 2    \* cap of the number of saved states of the context

\* Where a Camera is placed: at -1.5, 0 and 1.5 pixels.
CameraCoordinates == {-3, 0, 3}

\* What a callback translates the context by, in pixels.
CallbackShifts == {0, 1}

WithinCaps(c) ==
    /\ c.tx >= -MaxShift /\ c.tx <= MaxShift
    /\ c.ty >= -MaxShift /\ c.ty <= MaxShift
    /\ Len(c.saved) <= MaxSaved

InitCamera ==
    \E x \in CameraCoordinates, y \in CameraCoordinates :
        /\ lists = << <<>> >>
        /\ anims = <<Animation(1)>>
        /\ history = <<NoHistory>>
        /\ result = Returned
        /\ camera = Camera(x, y)
        /\ context = NewContext
        /\ probe = [pc |-> "camera", op |-> "new", before |-> NewContext]

OnCamera(op) ==
    /\ probe' = [probe EXCEPT !.op = op, !.before = context]
    /\ UNCHANGED <<lists, anims, history>>

CameraPlace ==
    \E x \in CameraCoordinates, y \in CameraCoordinates :
        /\ camera' = Camera(x, y)
        /\ result' = Returned
        /\ OnCamera("place")
        /\ UNCHANGED context

CameraDraw ==
    /\ WithinCaps(cameraDraw(camera, context))
    /\ context' = cameraDraw(camera, context)
    /\ result' = Returned
    /\ OnCamera("draw")
    /\ UNCHANGED camera

CameraDrawAbsolute ==
    \E dx \in CallbackShifts, dy \in CallbackShifts, thrown \in BOOLEAN :
        LET drawn == contextTranslate(drawAbsoluteEnter(camera, context), dx, dy)
        IN  /\ WithinCaps(drawn)
            /\ context' = drawAbsolute(drawn, thrown)
            /\ result' = IF thrown THEN Threw ELSE Returned
            /\ OnCamera("drawAbsolute")
            /\ UNCHANGED camera

NextCamera ==
    \/ CameraPlace
    \/ CameraDraw
    \/ CameraDrawAbsolute

SpecCamera == InitCamera /\ [][NextCamera]_vars

\* C17: after every drawAbsolute() call, whether the callback returned or
\* threw, the context has as many saved states as before the call and the
\* translation it had before the call.
DrawAbsoluteRestores ==
    probe.op = "drawAbsolute" =>
        /\ Len(context.saved) = Len(probe.before.saved)
        /\ context.tx = probe.before.tx
        /\ context.ty = probe.before.ty

====
